---- MODULE Spec2Model ----
(***************************************************************************)
(* Model of convert_video_to_av1.go: the generic converter (lines 1-175)   *)
(* and the date-directory filtered converter (lines 177-441).              *)
(*                                                                         *)
(* File names are sequences of one-character strings, paths are sequences  *)
(* of names (filepath.Join appends a name, filepath.Dir drops the last     *)
(* one, filepath.Base is the last one).  The file system, the JSON         *)
(* configuration file, and the outcomes of the ffprobe and ffmpeg          *)
(* subprocesses are the environment: what is at the base path is fixed in  *)
(* Init, the rest is drawn when the code asks for it.                      *)
(***************************************************************************)
EXTENDS Integers, Sequences, FiniteSets, TLC

VARIABLES
    variant,       \* "generic" or "filtered": which program runs
    cfgFile,       \* config.json
    disk,          \* the base path's node, with its tree once it is scanned
    outStat,       \* what os.Stat finds at the output path out
    pc,            \* position in main
    config,        \* the Config returned by loadConfig
    loadErr,       \* the error loadConfig returned ("" for nil)
    created,       \* directories created by os.MkdirAll
    videoFiles,    \* the slice returned by findVideoFiles
    scanErr,       \* whether findVideoFiles returned an error
    idx,           \* 1-based position of the range loop over videoFiles
    successCount,
    errorCount,
    skippedCount,
    exitCode,      \* -1 while running, then the process exit code
    summaries,     \* the final summary lines logged, each with its counters
    spawnLog,      \* the encoder subprocesses run so far, in order
    avProbed,      \* files for which some probe returned an AV1 codec name
    last           \* what the latest loop iteration did

vars == <<variant, cfgFile, disk, outStat, pc, config, loadErr, created, videoFiles, scanErr, idx,
          successCount, errorCount, skippedCount, exitCode, summaries,
          spawnLog, avProbed, last>>

-----------------------------------------------------------------------------
(* Bounds of the modelled file trees *)

\* most entries directly under the base path
MaxTop == 2

-----------------------------------------------------------------------------
(* Strings *)

UpperChars == <<"A","B","C","D","E","F","G","H","I","J","K","L","M",
                "N","O","P","Q","R","S","T","U","V","W","X","Y","Z">>
LowerChars == <<"a","b","c","d","e","f","g","h","i","j","k","l","m",
                "n","o","p","q","r","s","t","u","v","w","x","y","z">>

Digits == {"0","1","2","3","4","5","6","7","8","9"}

SpaceChars == {" ", "\n", "\t", "\r"}

UpperSet == {UpperChars[i] : i \in 1..26}

LowerOf == [c \in UpperSet |-> LowerChars[CHOOSE i \in 1..26 : UpperChars[i] = c]]

LowerChar(c) == IF c \in UpperSet THEN LowerOf[c] ELSE c

\* strings.ToLower
ToLower(s) == [i \in 1..Len(s) |-> LowerChar(s[i])]

\* strings.HasSuffix
HasSuffix(s, suf) ==
    /\ Len(suf) <= Len(s)
    /\ SubSeq(s, Len(s) - Len(suf) + 1, Len(s)) = suf

\* strings.TrimSuffix
TrimSuffix(s, suf) ==
    IF HasSuffix(s, suf) THEN SubSeq(s, 1, Len(s) - Len(suf)) ELSE s

\* strings.Contains
Contains(s, sub) ==
    \E i \in 1..(Len(s) - Len(sub) + 1) : SubSeq(s, i, i + Len(sub) - 1) = sub

\* strings.TrimSpace
TrimSpace(s) ==
    LET keep == {i \in 1..Len(s) : s[i] \notin SpaceChars}
    IN  IF keep = {} THEN <<>>
        ELSE LET lo == CHOOSE i \in keep : \A j \in keep : i <= j
                 hi == CHOOSE i \in keep : \A j \in keep : j <= i
             IN  SubSeq(s, lo, hi)

\* filepath.Ext of a name without separators: from the final dot on
Ext(name) ==
    LET dots == {i \in 1..Len(name) : name[i] = "."}
    IN  IF dots = {} THEN <<>>
        ELSE SubSeq(name, CHOOSE i \in dots : \A j \in dots : j <= i, Len(name))

\* filepath.Base, filepath.Dir and filepath.Join on paths as name sequences
Base(path) == path[Len(path)]
Dir(path) == SubSeq(path, 1, Len(path) - 1)
Join(dir, name) == Append(dir, name)

videoExtensions ==
    { <<".","m","p","4">>, <<".","a","v","i">>, <<".","m","k","v">>,
      <<".","m","o","v">>, <<".","w","m","v">>, <<".","f","l","v">>,
      <<".","w","e","b","m">> }

\* the test of the walk callback: strings.ToLower(filepath.Ext(path)) in the map
IsVideoName(name) == ToLower(Ext(name)) \in videoExtensions

\* the date pattern without its anchors: \d{8} anywhere in the name
isDateFormatDir_Unanchored(dirName) ==
    \E i \in 1..(Len(dirName) - 7) : \A j \in i..(i + 7) : dirName[j] \in Digits

\* isDateFormatDir: regexp ^\d{8}$
isDateFormatDir(dirName) ==
    /\ Len(dirName) = 8
    /\ \A i \in 1..Len(dirName) : dirName[i] \in Digits

Av1Suffix == <<"_","a","v","1",".","m","k","v">>

\* the output name without the _av1 marker: the stem with .mkv
outputFileName_NoMarker(baseName) ==
    TrimSuffix(baseName, Ext(baseName)) \o <<".","m","k","v">>

\* outputFileName := fmt.Sprintf("%s_av1.mkv", strings.TrimSuffix(baseName, ext))
outputFileName(baseName) == TrimSuffix(baseName, Ext(baseName)) \o Av1Suffix

\* the codec test without the lowering
IsAV1_CaseSensitive(codec) == Contains(codec, <<"a","v","1">>)

\* strings.Contains(strings.ToLower(codec), "av1")
IsAV1(codec) == Contains(ToLower(codec), <<"a","v","1">>)

-----------------------------------------------------------------------------
(* The file system *)

MediaName == <<"m","e","d","i","a">>
OutName == <<"o","u","t">>
MediaPath == <<MediaName>>
OutPath == <<OutName>>

FileNode(name) == [name |-> name, kind |-> "file", ok |-> TRUE, kids |-> <<>>]
DirNode(name, ok, kids) == [name |-> name, kind |-> "dir", ok |-> ok, kids |-> kids]

X_mp4 == <<"x",".","m","p","4">>
X_av1_mkv == <<"x","_","a","v","1",".","m","k","v">>
B_MKV == <<"b",".","M","K","V">>
C_txt == <<"c",".","t","x","t">>
D_mov == <<"d",".","m","o","v">>
SubName == <<"s","u","b">>

\* directory listings, in the name order os.ReadDir returns
DirContents ==
    { <<>>,
      <<FileNode(X_mp4), FileNode(X_av1_mkv)>>,
      <<FileNode(B_MKV), FileNode(C_txt)>>,
      <<DirNode(SubName, TRUE, <<FileNode(D_mov)>>)>>,
      <<DirNode(SubName, FALSE, <<FileNode(D_mov)>>), FileNode(X_mp4)>> }

DashName == <<"2","0","2","4","-","0","1","-","0","1">>
Date1Name == <<"2","0","2","4","0","1","0","1">>
NineName == <<"2","0","2","4","0","1","0","1","1">>
DateFileName == <<"2","0","2","4","0","1","0","1","f","i","l","e",".","t","x","t">>
Date2Name == <<"2","0","2","4","0","1","0","2">>

\* names an entry directly under the base path can have, in name order
TopNames == <<DashName, Date1Name, NineName, DateFileName, Date2Name>>

TopNodes(i) ==
    IF TopNames[i] = DateFileName
    THEN {FileNode(TopNames[i])}
    ELSE {DirNode(TopNames[i], TRUE, c) : c \in DirContents}

\* the listings of the base path: at most MaxTop of the names, each with a content
TopListings ==
    UNION { { [j \in 1..Cardinality(S) |->
                  f[CHOOSE i \in S : Cardinality({k \in S : k < i}) = j - 1]]
              : f \in { g \in [S -> UNION {TopNodes(i) : i \in S}] :
                          \A i \in S : g[i] \in TopNodes(i) } }
            : S \in {T \in SUBSET (1..Len(TopNames)) : Cardinality(T) <= MaxTop} }

\* what os.Stat can find at the base path: a directory (readable or not), a
\* regular file, nothing, or something it cannot reach (permission denied)
BaseNodes ==
    { DirNode(MediaName, TRUE, <<>>),
      DirNode(MediaName, FALSE, <<>>),
      [name |-> MediaName, kind |-> "file", ok |-> TRUE, kids |-> <<>>],
      [name |-> MediaName, kind |-> "notexist", ok |-> FALSE, kids |-> <<>>],
      [name |-> MediaName, kind |-> "eperm", ok |-> FALSE, kids |-> <<>>] }

\* the trees a scan can find below the base node d: any listing for a
\* readable directory, nothing else otherwise
Disks(d) ==
    IF d.kind = "dir" /\ d.ok
    THEN { DirNode(MediaName, TRUE, l) : l \in TopListings }
    ELSE {d}

RECURSIVE Flatten(_)
Flatten(seqs) ==
    IF seqs = <<>> THEN <<>> ELSE Head(seqs) \o Flatten(Tail(seqs))

\* filepath.WalkDir below an entry that os.Lstat found, with the callback of
\* findVideoFiles / findVideosInDir: a non-directory with a video extension is
\* appended; a directory that cannot be read is reported to the callback,
\* which logs and returns nil, so its entries are not visited
RECURSIVE walkDir(_, _)
walkDir(path, d) ==
    IF d.kind # "dir"
    THEN IF IsVideoName(Base(path)) THEN <<path>> ELSE <<>>
    ELSE IF ~d.ok THEN <<>>
    ELSE Flatten([i \in 1..Len(d.kids) |->
                     walkDir(Join(path, d.kids[i].name), d.kids[i])])

\* filepath.WalkDir(root, fn): an os.Lstat failure on the root goes to the
\* callback, which returns nil; the callback never returns an error
WalkDir(path, d) ==
    IF d.kind \in {"notexist", "eperm"} THEN <<>> ELSE walkDir(path, d)

\* findVideoFiles of the generic program: the result, err is always nil
findVideoFilesGeneric(basePath, d) ==
    [err |-> FALSE, files |-> WalkDir(basePath, d)]

\* findVideosInDir of the filtered program
findVideosInDir(dirPath, d) == WalkDir(dirPath, d)

\* findVideoFiles of the filtered program: an error when os.ReadDir fails on
\* the base path, nil when no child is a date directory, else the files of
\* the date directories one after the other
findVideoFilesFiltered(basePath, d) ==
    IF d.kind # "dir" \/ ~d.ok
    THEN [err |-> TRUE, files |-> <<>>]
    ELSE LET dateFormatDirs ==
                 SelectSeq(d.kids,
                           LAMBDA e : e.kind = "dir" /\ isDateFormatDir(e.name))
         IN  IF Len(dateFormatDirs) = 0
             THEN [err |-> FALSE, files |-> <<>>]
             ELSE [err |-> FALSE,
                   files |-> Flatten([i \in 1..Len(dateFormatDirs) |->
                                 findVideosInDir(Join(basePath, dateFormatDirs[i].name),
                                                 dateFormatDirs[i])])]

-----------------------------------------------------------------------------
(* loadConfig *)

FfmpegName == <<"f","f","m","p","e","g">>
DefaultFfmpeg == <<FfmpegName>>
CustomFfmpeg == <<<<"o","p","t">>, FfmpegName>>

ZeroConfig == [BasePath |-> <<>>, OutputPath |-> <<>>, FfmpegPath |-> <<>>]

\* the fields of the Config struct of a variant
Fields(v) ==
    IF v = "generic" THEN {"BasePath", "OutputPath", "FfmpegPath"}
    ELSE {"BasePath", "FfmpegPath"}

FieldValues(k) ==
    CASE k = "BasePath" -> {<<>>, MediaPath}
      [] k = "OutputPath" -> {OutPath, MediaPath}
      [] k = "FfmpegPath" -> {CustomFfmpeg}

\* the JSON objects a config.json can hold: any of the fields may be absent
JsonObjects(v) ==
    UNION { { o \in [S -> UNION {FieldValues(k) : k \in S}] :
                \A k \in S : o[k] \in FieldValues(k) }
            : S \in SUBSET Fields(v) }

\* config.json: unreadable, not JSON, or a JSON object
ConfigFiles(v) ==
    { [readable |-> FALSE, wellFormed |-> FALSE, json |-> <<>>],
      [readable |-> TRUE, wellFormed |-> FALSE, json |-> <<>>] }
    \cup { [readable |-> TRUE, wellFormed |-> TRUE, json |-> o] : o \in JsonObjects(v) }

\* what loadConfig's other system calls can answer: mkdirOk is os.MkdirAll,
\* ff is how the encoder path resolves (exec.LookPath finds it, or the
\* result of os.Stat on it)
Envs == [mkdirOk : BOOLEAN, ff : {"inpath", "ok", "notexist", "eperm"}]

Field(o, k) == IF k \in DOMAIN o THEN o[k] ELSE <<>>

\* json.Unmarshal into the Config struct of the variant; a field the object
\* lacks keeps the zero value "", the filtered Config has no OutputPath
Unmarshal(v, o) ==
    [BasePath |-> Field(o, "BasePath"),
     OutputPath |-> IF v = "generic" THEN Field(o, "OutputPath") ELSE <<>>,
     FfmpegPath |-> Field(o, "FfmpegPath")]

\* os.Stat: "ok", "notexist" or another error
Stat(path, d, out) ==
    IF path = <<>> THEN "notexist"
    ELSE IF path = MediaPath
         THEN (IF d.kind \in {"dir", "file"} THEN "ok" ELSE d.kind)
         ELSE out

\* loadConfig without the BasePath field check
BasePathMissing_Unchecked(c) == FALSE

\* if config.BasePath == ""
BasePathMissing(c) == c.BasePath = <<>>

\* if _, err := os.Stat(config.BasePath); os.IsNotExist(err)
BasePathRejected(st) == st = "notexist"

\* the defaulting of FfmpegPath
WithFfmpeg(c) ==
    IF c.FfmpegPath = <<>> THEN [c EXCEPT !.FfmpegPath = DefaultFfmpeg] ELSE c

\* the OutputPath block of the generic loadConfig: "" or the error, and
\* the directories created
EnsureOutput(c, d, out, env) ==
    LET st == Stat(c.OutputPath, d, out)
    IN  IF st = "notexist"
        THEN IF env.mkdirOk
             THEN [err |-> "", created |-> {c.OutputPath}]
             ELSE [err |-> "mkdir", created |-> {}]
        ELSE IF st # "ok"
             THEN [err |-> "OutputPath stat", created |-> {}]
             ELSE [err |-> "", created |-> {}]

\* the FfmpegPath block of loadConfig: "" or the error
CheckFfmpeg(env) ==
    IF env.ff = "inpath" THEN ""
    ELSE IF env.ff = "notexist" THEN "FfmpegPath not found"
    ELSE IF env.ff # "ok" THEN "FfmpegPath stat"
    ELSE ""

Returned(c, e, cr) == [err |-> e, config |-> c, created |-> cr]

\* loadConfig of either variant: the returned Config and error ("" for nil),
\* and the directories it created
loadConfig(v, file, d, out, env) ==
    IF ~file.readable THEN Returned(ZeroConfig, "read", {})
    ELSE IF ~file.wellFormed THEN Returned(ZeroConfig, "parse", {})
    ELSE
    LET c0 == Unmarshal(v, file.json)
        c == WithFfmpeg(c0)
        o == IF v = "generic" THEN EnsureOutput(c, d, out, env)
             ELSE [err |-> "", created |-> {}]
    IN  IF BasePathMissing(c0) THEN Returned(c0, "missing BasePath", {})
        ELSE IF v = "generic" /\ c0.OutputPath = <<>>
             THEN Returned(c0, "missing OutputPath", {})
        ELSE IF BasePathRejected(Stat(c.BasePath, d, out))
             THEN Returned(c, "BasePath not found", {})
        ELSE IF o.err # "" THEN Returned(c, o.err, o.created)
        ELSE Returned(c, CheckFfmpeg(env), o.created)

-----------------------------------------------------------------------------
(* Subprocesses *)

\* what ffprobe can print (combined output) when it exits with 0
ProbeOutputs ==
    { <<"h","2","6","4","\n">>,
      <<"a","v","1","\n">>,
      <<"A","V","1","\r","\n">>,
      <<"l","i","b","a","o","m","-","a","v","1","\n">> }

\* the runs of ffprobe: it fails (non-zero exit, or does not start) or prints
ProbeRuns ==
    {[ok |-> FALSE, out |-> <<>>]} \cup {[ok |-> TRUE, out |-> o] : o \in ProbeOutputs}

\* the runs of ffmpeg: the exit code, -1 when it could not be started
EncoderRuns == {0, 1, -1}

\* getVideoCodec: the codec name and whether err is nil (which ffprobe binary
\* is run, beside ffmpeg or from PATH, is part of the run's outcome)
getVideoCodec(run) ==
    IF ~run.ok THEN [ok |-> FALSE, codec |-> <<>>]
    ELSE [ok |-> TRUE, codec |-> TrimSpace(run.out)]

\* cmd.Run read as the exit code alone: an encoder that could not be started
\* passes for a success
cmdRunFailed_ExitCodeOnly(run) == run > 0

\* err := cmd.Run(); err != nil
cmdRunFailed(run) == run # 0

\* the check of main before the conversion:
\* checkErr == nil && strings.Contains(strings.ToLower(codec), "av1")
ControllerSkips(p) == p.ok /\ IsAV1(p.codec)

\* the check of convertVideoToAV1 failing closed: a probe error returns
\* before the encoder
DriverSkips_FailClosed(p) == ~p.ok \/ IsAV1(p.codec)

\* the check at the head of convertVideoToAV1 (filtered): err != nil goes on
\* to convert, an AV1 name returns nil
DriverSkips(p) == p.ok /\ IsAV1(p.codec)

\* the ffmpeg command convertVideoToAV1 builds
Command(ffmpegPath, inputPath, fullOutputPath) ==
    [ffmpeg |-> ffmpegPath, input |-> inputPath, output |-> fullOutputPath]

\* convertVideoToAV1 of the generic program: whether it returns an error, and
\* the commands it ran
convertVideoToAV1Generic(inputPath, outputPath, ffmpegPath, run) ==
    LET fullOutputPath == Join(outputPath, outputFileName(Base(inputPath)))
    IN  [err |-> cmdRunFailed(run),
         ran |-> <<Command(ffmpegPath, inputPath, fullOutputPath)>>]

\* convertVideoToAV1 of the filtered program
convertVideoToAV1Filtered(inputPath, ffmpegPath, probe, run) ==
    LET p == getVideoCodec(probe)
        fullOutputPath == Join(Dir(inputPath), outputFileName(Base(inputPath)))
    IN  IF DriverSkips(p)
        THEN [err |-> FALSE, ran |-> <<>>]
        ELSE [err |-> cmdRunFailed(run),
              ran |-> <<Command(ffmpegPath, inputPath, fullOutputPath)>>]

-----------------------------------------------------------------------------
(* main *)

NoIteration == [file |-> <<>>, probes |-> <<>>, ran |-> <<>>, exit |-> 0]

\* the exit code of log.Fatalf
FatalExit == 1

Init ==
    /\ variant \in {"generic", "filtered"}
    /\ cfgFile \in ConfigFiles(variant)
    /\ disk \in BaseNodes
    /\ outStat \in IF variant = "generic" THEN {"ok", "notexist", "eperm"} ELSE {"ok"}
    /\ pc = "start"
    /\ config = ZeroConfig
    /\ loadErr = ""
    /\ created = {}
    /\ videoFiles = <<>>
    /\ scanErr = FALSE
    /\ idx = 0
    /\ successCount = 0
    /\ errorCount = 0
    /\ skippedCount = 0
    /\ exitCode = -1
    /\ summaries = <<>>
    /\ spawnLog = <<>>
    /\ avProbed = {}
    /\ last = NoIteration

\* config, err := loadConfig("config.json"); log.Fatalf on an error
LoadConfig ==
    /\ pc = "start"
    /\ \E env \in Envs :
          LET r == loadConfig(variant, cfgFile, disk, outStat, env)
          IN  /\ loadErr' = r.err
              /\ created' = r.created
              /\ outStat' = IF OutPath \in r.created THEN "ok" ELSE outStat
              /\ IF r.err = ""
                 THEN /\ config' = r.config
                      /\ pc' = "loaded"
                      /\ exitCode' = exitCode
                 ELSE /\ config' = config
                      /\ pc' = "exit"
                      /\ exitCode' = FatalExit
    /\ UNCHANGED <<variant, cfgFile, disk, videoFiles, scanErr, idx, successCount,
                   errorCount, skippedCount, summaries, spawnLog, avProbed, last>>

\* videoFiles, err := findVideoFiles(config.BasePath); log.Fatalf on an error
FindVideoFiles ==
    /\ pc = "loaded"
    /\ \E d \in Disks(disk) :
          LET r == IF variant = "generic"
                   THEN findVideoFilesGeneric(config.BasePath, d)
                   ELSE findVideoFilesFiltered(config.BasePath, d)
          IN  /\ disk' = d
              /\ scanErr' = r.err
              /\ videoFiles' = r.files
              /\ IF r.err
                 THEN pc' = "exit" /\ exitCode' = FatalExit
                 ELSE pc' = "scanned" /\ exitCode' = exitCode
    /\ UNCHANGED <<variant, cfgFile, outStat, config, loadErr, created, idx,
                   successCount, errorCount, skippedCount, summaries, spawnLog,
                   avProbed, last>>

\* main without its empty-list return
NoFiles_Never(files) == FALSE

\* if len(videoFiles) == 0
NoFiles(files) == Len(files) = 0

\* the empty-list return of main, or the entry into the range loop
CheckEmpty ==
    /\ pc = "scanned"
    /\ IF NoFiles(videoFiles)
       THEN pc' = "exit" /\ exitCode' = 0 /\ idx' = idx
       ELSE pc' = "loop" /\ exitCode' = exitCode /\ idx' = 1
    /\ UNCHANGED <<variant, cfgFile, disk, outStat, config, loadErr, created,
                   videoFiles, scanErr, successCount, errorCount, skippedCount,
                   summaries, spawnLog, avProbed, last>>

\* errorCount++ / successCount++ / skippedCount++
Inc(n) == n + 1

\* for the history variable avProbed: a probe result names AV1 when its
\* codec name holds a, v, 1 in a row in either case
NamesAV1(p) ==
    /\ p.ok
    /\ \E i \in 1..(Len(p.codec) - 2) :
          /\ p.codec[i] \in {"a", "A"}
          /\ p.codec[i + 1] \in {"v", "V"}
          /\ p.codec[i + 2] = "1"

\* the loop with a skip that is not counted
Tally_SkipUncounted(file, probes, ran, exit, outcome) ==
    /\ spawnLog' = spawnLog \o ran
    /\ successCount' = IF outcome = "succeeded" THEN Inc(successCount) ELSE successCount
    /\ errorCount' = IF outcome = "failed" THEN Inc(errorCount) ELSE errorCount
    /\ skippedCount' = skippedCount
    /\ avProbed' = IF \E i \in 1..Len(probes) : NamesAV1(probes[i])
                   THEN avProbed \cup {file} ELSE avProbed
    /\ last' = [file |-> file, probes |-> probes, ran |-> ran, exit |-> exit]

\* the effect of one loop iteration on the counters, with what it did
Tally(file, probes, ran, exit, outcome) ==
    /\ spawnLog' = spawnLog \o ran
    /\ successCount' = IF outcome = "succeeded" THEN Inc(successCount) ELSE successCount
    /\ errorCount' = IF outcome = "failed" THEN Inc(errorCount) ELSE errorCount
    /\ skippedCount' = IF outcome = "skipped" THEN Inc(skippedCount) ELSE skippedCount
    /\ avProbed' = IF \E i \in 1..Len(probes) : NamesAV1(probes[i])
                   THEN avProbed \cup {file} ELSE avProbed
    /\ last' = [file |-> file, probes |-> probes, ran |-> ran, exit |-> exit]

\* one iteration of the range loop of the generic main
IterateGeneric ==
    /\ pc = "loop"
    /\ variant = "generic"
    /\ idx <= Len(videoFiles)
    /\ \E run \in EncoderRuns :
          LET file == videoFiles[idx]
              r == convertVideoToAV1Generic(file, config.OutputPath, config.FfmpegPath, run)
          IN  Tally(file, <<>>, r.ran, run, IF r.err THEN "failed" ELSE "succeeded")
    /\ idx' = idx + 1
    /\ UNCHANGED <<variant, cfgFile, disk, outStat, pc, config, loadErr, created,
                   videoFiles, scanErr, exitCode, summaries>>

\* one iteration of the range loop of the filtered main: the probe of main,
\* then convertVideoToAV1 with its own probe and, when it gets there, the
\* encoder
IterateFiltered ==
    /\ pc = "loop"
    /\ variant = "filtered"
    /\ idx <= Len(videoFiles)
    /\ LET file == videoFiles[idx]
       IN  \E probe1 \in ProbeRuns :
              LET p1 == getVideoCodec(probe1)
              IN  IF ControllerSkips(p1)
                  THEN Tally(file, <<p1>>, <<>>, 0, "skipped")
                  ELSE \E probe2 \in ProbeRuns :
                       \E run \in IF DriverSkips(getVideoCodec(probe2))
                                  THEN {0} ELSE EncoderRuns :
                          LET r == convertVideoToAV1Filtered(file, config.FfmpegPath,
                                                   probe2, run)
                          IN  Tally(file, <<p1, getVideoCodec(probe2)>>, r.ran,
                                    IF r.ran = <<>> THEN 0 ELSE run,
                                    IF r.err THEN "failed" ELSE "succeeded")
    /\ idx' = idx + 1
    /\ UNCHANGED <<variant, cfgFile, disk, outStat, pc, config, loadErr, created,
                   videoFiles, scanErr, exitCode, summaries>>

\* the counters the summary line prints
SummaryLine ==
    IF variant = "generic"
    THEN [succeeded |-> successCount, failed |-> errorCount, skipped |-> 0]
    ELSE [succeeded |-> successCount, failed |-> errorCount, skipped |-> skippedCount]

\* the summary line after the loop, and the return of main
Summarize ==
    /\ pc = "loop"
    /\ idx > Len(videoFiles)
    /\ summaries' = Append(summaries, SummaryLine)
    /\ pc' = "exit"
    /\ exitCode' = 0
    /\ UNCHANGED <<variant, cfgFile, disk, outStat, config, loadErr, created,
                   videoFiles, scanErr, idx, successCount, errorCount, skippedCount,
                   spawnLog, avProbed, last>>

Next ==
    \/ LoadConfig
    \/ FindVideoFiles
    \/ CheckEmpty
    \/ IterateGeneric
    \/ IterateFiltered
    \/ Summarize

Spec == Init /\ [][Next]_vars

-----------------------------------------------------------------------------
(* Properties *)

Range(q) == {q[i] : i \in DOMAIN q}

\* a loop iteration is being taken
Iterating == pc = "loop" /\ idx' = idx + 1

\* the latest iteration ran the encoder and cmd.Run returned an error
EncoderFailed(it) == it.ran # <<>> /\ it.exit # 0

\* findVideoFiles has returned without an error
Scanned == pc \in {"scanned", "loop"} \/ (pc = "exit" /\ loadErr = "" /\ ~scanErr)

\* C1: an iteration whose encoder exits non-zero or cannot start adds exactly
\* one to the failure counter, leaves the other two counters alone and leaves
\* the run in the loop; a run that reached the loop ends with every file
\* handled and exit code 0.
C1_EncodeFailureCounted ==
    /\ [][ (Iterating /\ EncoderFailed(last'))
           => /\ errorCount' = errorCount + 1
              /\ successCount' = successCount
              /\ skippedCount' = skippedCount
              /\ pc' = "loop"
              /\ exitCode' = -1 ]_vars
    /\ [](pc = "exit" /\ spawnLog # <<>>
          => exitCode = 0 /\ idx = Len(videoFiles) + 1)

\* a run is over in which a conversion failed and a later file was converted
C1_Witness ==
    /\ pc = "exit"
    /\ errorCount >= 1
    /\ last.ran # <<>> /\ last.exit = 0
    /\ successCount = 1
    /\ exitCode = 0

\* C2: (filtered) a file for which some probe succeeded with a codec name
\* containing av1 in any case is the input of no encoder subprocess.
C2_NoEncoderForAV1 ==
    \A k \in DOMAIN spawnLog : spawnLog[k].input \notin avProbed

\* a run is over in which one file was probed as libaom-av1 and another converted
C2_Witness ==
    /\ pc = "exit"
    /\ spawnLog # <<>>
    /\ \E i \in DOMAIN last.probes :
          last.probes[i] = [ok |-> TRUE,
                            codec |-> <<"l","i","b","a","o","m","-","a","v","1">>]

\* C3: (filtered) an iteration in which a probe succeeded with a codec name
\* containing av1 and no conversion was run counts the file as skipped and
\* neither as succeeded nor as failed.
C3_ProbedAV1CountedSkipped ==
    [][ (Iterating /\ variant = "filtered" /\ last'.ran = <<>>
         /\ \E i \in DOMAIN last'.probes : NamesAV1(last'.probes[i]))
        => /\ skippedCount' = skippedCount + 1
           /\ successCount' = successCount
           /\ errorCount' = errorCount ]_vars

\* C4: (filtered) an iteration all of whose probes fail stays in the loop,
\* runs the encoder once on the file, and counts the file succeeded when the
\* encoder exits 0 and failed otherwise; no file is the input of two encoder
\* runs.
C4_ProbeFailureFailsOpen ==
    /\ [][ (Iterating /\ variant = "filtered"
            /\ \A i \in DOMAIN last'.probes : ~last'.probes[i].ok)
           => /\ pc' = "loop"
              /\ Len(last'.probes) = 2
              /\ Len(spawnLog') = Len(spawnLog) + 1
              /\ spawnLog'[Len(spawnLog')].input = videoFiles[idx]
              /\ skippedCount' = skippedCount
              /\ IF last'.exit = 0
                 THEN successCount' = successCount + 1 /\ errorCount' = errorCount
                 ELSE errorCount' = errorCount + 1 /\ successCount' = successCount ]_vars
    /\ [](\A j, k \in DOMAIN spawnLog :
             j # k => spawnLog[j].input # spawnLog[k].input)

\* both probes of a file failed, the encoder ran and failed, and the run went on
C4_Witness ==
    /\ variant = "filtered"
    /\ Len(last.probes) = 2
    /\ \A i \in DOMAIN last.probes : ~last.probes[i].ok
    /\ last.ran # <<>> /\ last.exit = 1
    /\ errorCount = 1 /\ successCount = 1
    /\ pc = "loop"

\* the counters a summary line carries are the counters of the run
CarriesCounters(line) ==
    /\ line.succeeded = successCount
    /\ line.failed = errorCount
    /\ line.skipped = skippedCount

\* C5 as stated: a run whose configuration load and scan succeed ends with
\* exit code 0 and exactly one summary line carrying the counters, whatever
\* the number of files; any other run ends non-zero without a summary line.
C5_OneSummaryOnEveryGoodRun ==
    pc = "exit" =>
        IF loadErr = "" /\ ~scanErr
        THEN exitCode = 0 /\ Len(summaries) = 1 /\ CarriesCounters(summaries[1])
        ELSE exitCode # 0 /\ summaries = <<>>

\* C5 amended: a run whose load and scan succeed ends with exit code 0; it
\* logs exactly one summary line carrying the counters when at least one file
\* was discovered and none when no file was; any other run ends non-zero
\* without a summary line; no summary line is logged before the end.
C5_SummaryUnlessEmpty ==
    IF pc = "exit"
    THEN IF loadErr = "" /\ ~scanErr
         THEN /\ exitCode = 0
              /\ IF Len(videoFiles) = 0
                 THEN summaries = <<>>
                 ELSE Len(summaries) = 1 /\ CarriesCounters(summaries[1])
         ELSE exitCode # 0 /\ summaries = <<>>
    ELSE summaries = <<>> /\ exitCode = -1

\* a run that loaded and scanned, found no file, and ended with code 0
C5_Witness ==
    /\ pc = "exit"
    /\ loadErr = "" /\ ~scanErr
    /\ videoFiles = <<>>
    /\ disk.kids # <<>>
    /\ exitCode = 0

\* the entries below directory d at path: each with its path, its kind, and
\* whether every directory from d down to it can be read
RECURSIVE EntriesBelow(_, _, _)
EntriesBelow(path, d, readable) ==
    UNION { {[path |-> Join(path, d.kids[i].name), kind |-> d.kids[i].kind,
              readable |-> readable /\ d.ok]}
            \cup EntriesBelow(Join(path, d.kids[i].name), d.kids[i], readable /\ d.ok)
            : i \in DOMAIN d.kids }

\* a name of exactly 8 ASCII digits
EightDigits(name) == name \in [1..8 -> Digits]

\* a name ending, in any case, in one of the seven video extensions
EndsInVideoExtension(name) ==
    \E e \in { <<".","m","p","4">>, <<".","a","v","i">>, <<".","m","k","v">>,
               <<".","m","o","v">>, <<".","w","m","v">>, <<".","f","l","v">>,
               <<".","w","e","b","m">> } :
        /\ Len(name) >= Len(e)
        /\ \A j \in 1..Len(e) :
              LowerChar(name[Len(name) - Len(e) + j]) = e[j]

\* the immediate children of the base directory that are 8-digit directories
DateDirs(d) == {i \in DOMAIN d.kids : d.kids[i].kind = "dir" /\ EightDigits(d.kids[i].name)}

\* the video entries below the date directories of d
VideosBelowDateDirs(d) ==
    { e \in UNION { EntriesBelow(Join(MediaPath, d.kids[i].name), d.kids[i], TRUE)
                    : i \in DateDirs(d) } :
        e.kind # "dir" /\ EndsInVideoExtension(Base(e.path)) }

NoDuplicates(q) == \A i, j \in DOMAIN q : i # j => q[i] # q[j]

\* C6 as stated: (filtered) findVideoFiles returns exactly the non-directory
\* entries with a video extension anywhere beneath an 8-digit directory child
\* of the root, and the empty list without error when no child qualifies.
C6_ScanReturnsAllBelowDateDirs ==
    (variant = "filtered" /\ Scanned) =>
        /\ Range(videoFiles) = {e.path : e \in VideosBelowDateDirs(disk)}
        /\ NoDuplicates(videoFiles)

\* C6 amended: (filtered) when the root can be listed, findVideoFiles returns
\* without error exactly those of these entries that lie in directories it can
\* read all the way down from the 8-digit directory; what lies in a directory
\* that cannot be read is left out; with no qualifying child the list is empty.
C6_ScanReturnsReadableBelowDateDirs ==
    /\ (variant = "filtered" /\ Scanned) =>
          /\ Range(videoFiles) =
                {e.path : e \in {x \in VideosBelowDateDirs(disk) : x.readable}}
          /\ NoDuplicates(videoFiles)
          /\ DateDirs(disk) = {} => videoFiles = <<>>
    /\ (variant = "filtered" /\ scanErr) => ~(disk.kind = "dir" /\ disk.ok)

\* a scan that found a video in a date directory and left out one in an
\* unreadable directory, beside a 9-digit directory that holds videos
C6_Witness ==
    /\ variant = "filtered"
    /\ pc = "scanned"
    /\ Len(videoFiles) = 1
    /\ \E e \in VideosBelowDateDirs(disk) : ~e.readable
    /\ \E i \in DOMAIN disk.kids :
          disk.kids[i].name = NineName /\ Len(disk.kids[i].kids) = 2

\* config.json is readable, well-formed JSON without a BasePath or with ""
LacksBasePath(f) ==
    /\ f.readable /\ f.wellFormed
    /\ ("BasePath" \notin DOMAIN f.json \/ f.json["BasePath"] = <<>>)

\* C7: for a readable, well-formed configuration whose BasePath is absent or
\* empty, loadConfig returns the missing-field error and creates no directory,
\* also when OutputPath is set and does not exist.
C7_MissingBasePathFails ==
    (pc # "start" /\ LacksBasePath(cfgFile)) =>
        /\ loadErr = "missing BasePath"
        /\ created = {}
        /\ pc = "exit"

\* the generic loadConfig has failed on a file that sets OutputPath to a
\* directory that does not exist and has no BasePath
C7_Witness ==
    /\ pc = "exit"
    /\ variant = "generic"
    /\ LacksBasePath(cfgFile)
    /\ "BasePath" \notin DOMAIN cfgFile.json
    /\ "OutputPath" \in DOMAIN cfgFile.json
    /\ cfgFile.json["OutputPath"] = OutPath
    /\ outStat = "notexist"

\* C8: whenever loadConfig has returned without error the BasePath exists and
\* is a readable directory (so not a regular file, and not a path whose
\* existence check failed for another reason than not existing).
C8_LoadedBasePathIsDirectory ==
    (pc # "start" /\ loadErr = "") => (disk.kind = "dir" /\ disk.ok)

\* C9: the loop handles videoFiles[idx] and moves idx on by one, adding one to
\* exactly one counter; in the loop succeeded + failed + skipped is the number
\* of files handled, skipped staying 0 in the generic variant; the summary's
\* counters add up to the number of discovered files, which are distinct.
C9_EachFileCountedOnce ==
    /\ [][ (pc = "loop" /\ pc' = "loop")
           => /\ idx <= Len(videoFiles)
              /\ idx' = idx + 1
              /\ last'.file = videoFiles[idx]
              /\ successCount' >= successCount
              /\ errorCount' >= errorCount
              /\ skippedCount' >= skippedCount
              /\ successCount' + errorCount' + skippedCount'
                    = successCount + errorCount + skippedCount + 1 ]_vars
    /\ [](pc = "loop" => successCount + errorCount + skippedCount = idx - 1)
    /\ [](variant = "generic" => skippedCount = 0)
    /\ [](NoDuplicates(videoFiles))
    /\ [](\A i \in DOMAIN summaries :
             summaries[i].succeeded + summaries[i].failed + summaries[i].skipped
                = Len(videoFiles))

\* a filtered run is summarised with a file in each of the three counters
C9_Witness ==
    /\ Len(summaries) = 1
    /\ summaries[1].succeeded >= 1
    /\ summaries[1].failed >= 1
    /\ summaries[1].skipped >= 1

\* C10 as stated: the output path of an encoder run is the path of no
\* discovered file.
C10_OutputIsNoInput ==
    \A k \in DOMAIN spawnLog : spawnLog[k].output \notin Range(videoFiles)

\* C10 amended: the output path of an encoder run is never the path of the
\* file that run converts.
C10_OutputIsNotItsInput ==
    \A k \in DOMAIN spawnLog : spawnLog[k].output # spawnLog[k].input

\* x.mp4 was converted onto x_av1.mkv, itself a discovered file, and
\* x_av1.mkv was converted as well
C10_Witness ==
    /\ \E k \in DOMAIN spawnLog :
          /\ spawnLog[k].output \in Range(videoFiles)
          /\ Base(spawnLog[k].input) = X_mp4
    /\ \E k \in DOMAIN spawnLog : Base(spawnLog[k].input) = X_av1_mkv

====
